---------------------------- MODULE Spec2Model ----------------------------
(***************************************************************************)
(* Model of js_balls.js: the PlayGround game loop (ball-ball collision     *)
(* detection, deletions, wall collisions, position update) and the Circle  *)
(* state (centre, radius, velocity, strength, collided).                   *)
(*                                                                         *)
(* Numbers.  The program computes with floating point pixels.  The model   *)
(* uses integers that count 1/Scale of a pixel, so a radius of 1 unit with *)
(* Scale = 2 is half a pixel and the "r - 1" of Circle.update is           *)
(* "r - Scale".  getDistance returns a square root; the model keeps the    *)
(* squared distance and compares it with the squared sum of the radii,     *)
(* which is the same comparison because both sides are non-negative.       *)
(***************************************************************************)
EXTENDS Integers, Sequences, FiniteSets

\* ------------------------------------------------------------ constants
TIMER_INTERVAL_MS == 1
MAX_VELOCITY == 3
INITIAL_RADIUS == 10
INITIAL_STRENGTH == 1
\* the argument of circles[circle].update(1)
UpdateTime == 1

\* ------------------------------------------------------------ bounds
\* units per pixel
Scale == 2
\* half of document.body.clientWidth and of document.body.clientHeight, in pixels
HalfWidth == 12
HalfHeight == 12
\* number of circles ever created (the initial one included)
MaxCircles == 3
\* number of timer callbacks explored
MaxTicks == 5

\* document.body.clientWidth and document.body.clientHeight, in units
W == 2 * HalfWidth * Scale
H == 2 * HalfHeight * Scale
InitR == INITIAL_RADIUS * Scale

\* ------------------------------------------------------------ state
VARIABLES
    circles,    \* PlayGround.circles: array of Circle, deleted slots are undefined
    counter,    \* PlayGround.counter: next html_id
    pc,         \* position of the timer callback inside loop()
    ticks,      \* number of loop() calls started
    decays,     \* history: per slot, the number of updates that shrank its radius
    before,     \* history: the circles array as it was before the last step
    last,       \* history: the last step taken
    tickLive,   \* history: the slots that held a circle when the last loop() began
    zeeow,      \* per slot, the number of play() calls on 'zee-ow' made by its update
    trash,      \* the number of play() calls on 'trash'
    cues,       \* per slot, the number of play() calls made for it by the last step
    spawned,    \* history: per slot, the id, strength, radius, speed given at creation
    atTick,     \* history: the circles array as it was when the last loop() began
    steps,      \* history: the steps of loop() taken since the last loop() began
    running,    \* history: the number of handlers begun and not finished
    flaggedAt   \* history: per slot, the tick of the first update that found it
                \* flagged with strength 0 (0: none yet)

vars == <<circles, counter, pc, ticks, decays, before, last, tickLive,
          zeeow, trash, cues, spawned, atTick, steps, running, flaggedAt>>

\* a slot emptied by "delete circles[c1]"
undefined == [tag |-> "undefined"]

IsCircle(c) == c # undefined

Abs(n) == IF n < 0 THEN -n ELSE n

Max(a, b) == IF a >= b THEN a ELSE b

B2N(b) == IF b THEN 1 ELSE 0

\* ------------------------------------------------------------ input adapter
\* ((evt.button & 0x1) << 3) + (evt.altKey << 2) + (evt.ctrlKey << 1) + evt.shiftKey
getClickType(evt) ==
    ((evt.button % 2) * 8) + (B2N(evt.altKey) * 4) + (B2N(evt.ctrlKey) * 2) + B2N(evt.shiftKey)

\* randomNumberBetween(-MAX_VELOCITY, MAX_VELOCITY) / Math.pow(r, 0.5):
\* Math.random() is in [0, 1), so v * sqrt(r) is in [-MAX_VELOCITY, MAX_VELOCITY).
\* In units: v^2 * r <= MAX_VELOCITY^2 * Scale^3, strictly for v > 0.
VelocityInRange(v, r) ==
    LET lim == MAX_VELOCITY * MAX_VELOCITY * Scale * Scale * Scale
    IN  IF v > 0 THEN v * v * r < lim ELSE v * v * r <= lim

\* the draws of Math.random() explored, as the velocity they give (units per ms)
Velocities == { <<1, 1>>, <<-1, -1>> }

\* new Circle(cx, cy, radius, strength, html_id) followed by initialize()
Circle(cx, cy, radius, strength, html_id, v) ==
    [ id |-> html_id, collided |-> FALSE, strength |-> strength,
      cx |-> cx, cy |-> cy, r |-> radius, vx |-> v[1], vy |-> v[2] ]

\* The mouse gestures explored: where the button went up, the radius
\* Math.pow(duration, DURATION_RADIUS_SCALING_FACTOR) the press gave (a press
\* of positive duration gives a positive radius), and the keys held.
Gesture(x, y, r, button, alt, ctrl, shift) ==
    [ x |-> x, y |-> y, r |-> r, button |-> button,
      altKey |-> alt, ctrlKey |-> ctrl, shiftKey |-> shift ]

Gestures ==
    { Gesture(W \div 2, H \div 2, 1, 0, FALSE, FALSE, FALSE),
      Gesture(W \div 2, H \div 2, 3, 0, FALSE, FALSE, TRUE),
      Gesture(0, 0, 1, 0, FALSE, FALSE, FALSE),
      Gesture(W, H, 1, 0, FALSE, FALSE, TRUE),
      Gesture((W \div 2) + InitR + 2, H \div 2, 2, 0, FALSE, FALSE, TRUE),
      Gesture(W \div 2, H \div 2, (Max(W, H) \div 2) + 2, 0, FALSE, TRUE, FALSE) }

\* ------------------------------------------------------------ PlayGround
\* getDistance(c1, c2), squared
getDistance2(c1, c2) ==
    LET xDelta == c1.cx - c2.cx
        yDelta == c1.cy - c2.cy
    IN  (xDelta * xDelta) + (yDelta * yDelta)

\* variant: the distance is compared with the first radius only
Overlap_oneRadius(c1, c2) ==
    getDistance2(c1, c2) < c1.r * c1.r

\* variant: a tie counts as a collision
Overlap_tie(c1, c2) ==
    getDistance2(c1, c2) <= (c1.r + c2.r) * (c1.r + c2.r)

\* variant: only circles of strength > 0 collide
Overlap_aliveOnly(c1, c2) ==
    /\ c1.strength > 0 /\ c2.strength > 0
    /\ getDistance2(c1, c2) < (c1.r + c2.r) * (c1.r + c2.r)

\* distance < (circles[c1].info.r + circles[c2].info.r)
Overlap(c1, c2) ==
    getDistance2(c1, c2) < (c1.r + c2.r) * (c1.r + c2.r)

\* variant: a circle is compared with itself too
Distinct_always(i, j) == TRUE

\* circles[c1] !== circles[c2]
Distinct(i, j) == i # j

\* the tests of the inner loop of checkForBallCollisions for one (c1, c2)
PairCollides(cs, i, j) ==
    IsCircle(cs[i]) /\ IsCircle(cs[j]) /\ Distinct(i, j) /\ Overlap(cs[i], cs[j])

\* the body of the inner loop for one (c1, c2).  The pass writes only the
\* collided fields and reads only centres and radii, so it is carried out on
\* the sequence of the flags, next to the array cs as it was before the pass.
MarkPair(flags, cs, i, j) ==
    IF PairCollides(cs, i, j)
    THEN [flags EXCEPT ![i] = TRUE, ![j] = TRUE]
    ELSE flags

\* The two nested loops over the slots: the n-th pair visited, counting from 1,
\* is (c1, c2) = (((n - 1) \div L) + 1, ((n - 1) % L) + 1) for L slots, and
\* checkForBallCollisionsFrom(cs)[n] holds the flags after the first n pairs.
checkForBallCollisionsFrom(cs) ==
    LET L == Len(cs)
        pass[n \in 0..(L * L)] ==
            IF n = 0 THEN [i \in 1..L |-> IsCircle(cs[i]) /\ cs[i].collided]
            ELSE MarkPair(pass[n - 1], cs, ((n - 1) \div L) + 1, ((n - 1) % L) + 1)
    IN  pass

checkForBallCollisions(cs) ==
    [i \in 1..Len(cs) |->
        IF IsCircle(cs[i])
        THEN [cs[i] EXCEPT !.collided = checkForBallCollisionsFrom(cs)[Len(cs) * Len(cs)][i]]
        ELSE cs[i]]

\* variant: every collided circle is deleted, whatever its radius
HandleDeletion_anyRadius(c) ==
    IF IsCircle(c) /\ c.collided THEN undefined ELSE c

\* variant: the radius test is strict
HandleDeletion_strict(c) ==
    IF IsCircle(c) /\ c.collided /\ c.r < 0 THEN undefined ELSE c

\* the body of the loop of handleDeletions for one slot
HandleDeletion(c) ==
    IF IsCircle(c) /\ c.collided /\ c.r <= 0 THEN undefined ELSE c

\* the number of document.getElementById('trash').play() calls for one slot
HandleDeletionPlays(c) ==
    IF IsCircle(c) /\ c.collided /\ c.r <= 0 THEN 1 ELSE 0

handleDeletions(cs) == [i \in 1..Len(cs) |-> HandleDeletion(cs[i])]

\* variant: the velocity is negated instead of being given a sign
checkForWallCollision_flip(c) ==
    LET vx == IF (c.cx + c.r) > W THEN -c.vx
              ELSE IF (c.cx - c.r) < 0 THEN -c.vx
              ELSE c.vx
        vy == IF (c.cy + c.r) > H THEN -c.vy
              ELSE IF (c.cy - c.r) < 0 THEN -c.vy
              ELSE c.vy
    IN  [c EXCEPT !.vx = vx, !.vy = vy]

\* variant: the four tests form one else-if chain
checkForWallCollision_chain(c) ==
    IF (c.cx + c.r) > W THEN [c EXCEPT !.vx = -Abs(c.vx)]
    ELSE IF (c.cx - c.r) < 0 THEN [c EXCEPT !.vx = Abs(c.vx)]
    ELSE IF (c.cy + c.r) > H THEN [c EXCEPT !.vy = -Abs(c.vy)]
    ELSE IF (c.cy - c.r) < 0 THEN [c EXCEPT !.vy = Abs(c.vy)]
    ELSE c

\* variant: a circle that just touches a wall is turned too
checkForWallCollision_inclusive(c) ==
    LET vx == IF (c.cx + c.r) >= W THEN -Abs(c.vx)
              ELSE IF (c.cx - c.r) <= 0 THEN Abs(c.vx)
              ELSE c.vx
        vy == IF (c.cy + c.r) >= H THEN -Abs(c.vy)
              ELSE IF (c.cy - c.r) <= 0 THEN Abs(c.vy)
              ELSE c.vy
    IN  [c EXCEPT !.vx = vx, !.vy = vy]

\* Circle.checkForWallCollision
checkForWallCollision(c) ==
    LET vx == IF (c.cx + c.r) > W THEN -Abs(c.vx)
              ELSE IF (c.cx - c.r) < 0 THEN Abs(c.vx)
              ELSE c.vx
        vy == IF (c.cy + c.r) > H THEN -Abs(c.vy)
              ELSE IF (c.cy - c.r) < 0 THEN Abs(c.vy)
              ELSE c.vy
    IN  [c EXCEPT !.vx = vx, !.vy = vy]

checkForWallCollisions(cs) ==
    [i \in 1..Len(cs) |-> IF IsCircle(cs[i]) THEN checkForWallCollision(cs[i]) ELSE cs[i]]

\* variant: the strength is decremented whether or not the circle collided
update_alwaysDecrement(c, time) ==
    LET moved == [c EXCEPT !.cx = c.cx + (c.vx * time), !.cy = c.cy + (c.vy * time)]
    IN  IF moved.strength > 0
        THEN [moved EXCEPT !.strength = moved.strength - 1, !.collided = FALSE]
        ELSE IF moved.collided
             THEN [moved EXCEPT !.r = Max(moved.r - Scale, 0)]
             ELSE moved

\* variant: the flag is cleared in the shrinking branch too
update_clearWhenShrinking(c, time) ==
    LET moved == [c EXCEPT !.cx = c.cx + (c.vx * time), !.cy = c.cy + (c.vy * time)]
    IN  IF moved.collided
        THEN IF moved.strength > 0
             THEN [moved EXCEPT !.strength = moved.strength - 1, !.collided = FALSE]
             ELSE [moved EXCEPT !.r = Max(moved.r - Scale, 0), !.collided = FALSE]
        ELSE moved

\* variant: the radius is not floored at 0
update_noFloor(c, time) ==
    LET moved == [c EXCEPT !.cx = c.cx + (c.vx * time), !.cy = c.cy + (c.vy * time)]
    IN  IF moved.collided
        THEN IF moved.strength > 0
             THEN [moved EXCEPT !.strength = moved.strength - 1, !.collided = FALSE]
             ELSE [moved EXCEPT !.r = moved.r - Scale]
        ELSE moved

\* variant: the flag is cleared once the radius has reached 0
update_clearAtZero(c, time) ==
    LET moved == [c EXCEPT !.cx = c.cx + (c.vx * time), !.cy = c.cy + (c.vy * time)]
        shrunk == Max(moved.r - Scale, 0)
    IN  IF moved.collided
        THEN IF moved.strength > 0
             THEN [moved EXCEPT !.strength = moved.strength - 1, !.collided = FALSE]
             ELSE [moved EXCEPT !.r = shrunk, !.collided = (shrunk > 0)]
        ELSE moved

\* variant: the radius is floored at 1 pixel
update_floorAtOne(c, time) ==
    LET moved == [c EXCEPT !.cx = c.cx + (c.vx * time), !.cy = c.cy + (c.vy * time)]
    IN  IF moved.collided
        THEN IF moved.strength > 0
             THEN [moved EXCEPT !.strength = moved.strength - 1, !.collided = FALSE]
             ELSE [moved EXCEPT !.r = Max(moved.r - Scale, Scale)]
        ELSE moved

\* variant: the flag is left set when a strength point is taken
update_keepFlag(c, time) ==
    LET moved == [c EXCEPT !.cx = c.cx + (c.vx * time), !.cy = c.cy + (c.vy * time)]
    IN  IF moved.collided
        THEN IF moved.strength > 0
             THEN [moved EXCEPT !.strength = moved.strength - 1]
             ELSE [moved EXCEPT !.r = Max(moved.r - Scale, 0)]
        ELSE moved

\* Circle.update(time)
update(c, time) ==
    LET moved == [c EXCEPT !.cx = c.cx + (c.vx * time), !.cy = c.cy + (c.vy * time)]
    IN  IF moved.collided
        THEN IF moved.strength > 0
             THEN [moved EXCEPT !.strength = moved.strength - 1, !.collided = FALSE]
             ELSE [moved EXCEPT !.r = Max(moved.r - Scale, 0)]
        ELSE moved

\* variant: the cue is played on every update of a collided circle
updatePlays_everyCollision(c) ==
    IF c.collided THEN 1 ELSE 0

\* the number of document.getElementById('zee-ow').play() calls of one update
updatePlays(c) ==
    IF c.collided /\ c.strength > 0 THEN 1 ELSE 0

updatePositions(cs) ==
    [i \in 1..Len(cs) |-> IF IsCircle(cs[i]) THEN update(cs[i], UpdateTime) ELSE cs[i]]

\* variant: the counter is not advanced
PostIncrement_none(n) == n

\* counter++ leaves counter + 1 in counter
PostIncrement(n) == n + 1

RECURSIVE SeqSum(_)
SeqSum(q) == IF q = << >> THEN 0 ELSE Head(q) + SeqSum(Tail(q))

NoCues(n) == [i \in 1..n |-> 0]

\* what a circle was given at creation
Birth(c) ==
    [id |-> c.id, strength |-> c.strength, r |-> c.r, speedx |-> Abs(c.vx), speedy |-> Abs(c.vy)]

\* variant: the deletions come after the position update
loopOrder_reapLast == <<"detect", "walls", "update", "reap">>

\* the calls of loop(), in program order: checkForCollisions() =
\* checkForBallCollisions(); handleDeletions(); checkForWallCollisions(); then
\* updatePositions()
loopOrder == <<"detect", "reap", "walls", "update">>

\* the position of the timer callback before its k-th call
Labels == <<"idle", "detected", "reaped", "walled">>

\* variant: a handler may begin while loop() is in progress
HandlerMayStart_anytime(p) == TRUE

\* A handler (the timer callback, the mouse-up handler) begins only when none
\* is in progress: loop() and createNewCircle make synchronous calls only, so
\* each runs to completion before the next event is delivered.
HandlerMayStart(p) == p = "idle"

\* the bookkeeping common to the four steps of loop()
LoopStep(name) ==
    LET k == CHOOSE n \in 1..4 : loopOrder[n] = name
    IN  /\ IF k = 1 THEN HandlerMayStart(pc) /\ ticks < MaxTicks ELSE pc = Labels[k]
        /\ pc' = Labels[(k % 4) + 1]
        /\ ticks' = IF k = 1 THEN ticks + 1 ELSE ticks
        /\ tickLive' = IF k = 1 THEN { i \in 1..Len(circles) : IsCircle(circles[i]) }
                       ELSE tickLive
        /\ atTick' = IF k = 1 THEN circles ELSE atTick
        /\ steps' = IF k = 1 THEN << name >> ELSE Append(steps, name)
        /\ running' = running + (IF k = 1 THEN 1 ELSE 0) - (IF k = 4 THEN 1 ELSE 0)
        /\ before' = circles
        /\ last' = name
        /\ UNCHANGED <<counter, spawned>>

\* ------------------------------------------------------------ actions
\* new PlayGround(): empty list, then createNewCircle(clientWidth / 2,
\* clientHeight / 2, INITIAL_RADIUS, INITIAL_STRENGTH)
Init ==
    /\ \E v \in Velocities :
          /\ VelocityInRange(v[1], InitR) /\ VelocityInRange(v[2], InitR)
          /\ circles = << Circle(W \div 2, H \div 2, InitR, INITIAL_STRENGTH, 0, v) >>
    /\ counter = PostIncrement(0)
    /\ pc = "idle"
    /\ ticks = 0
    /\ decays = << 0 >>
    /\ before = circles
    /\ last = "init"
    /\ tickLive = {}
    /\ zeeow = << 0 >>
    /\ trash = 0
    /\ cues = NoCues(1)
    /\ spawned = << Birth(circles[1]) >>
    /\ atTick = << >>
    /\ steps = << >>
    /\ running = 0
    /\ flaggedAt = << 0 >>

\* document.onmouseup -> createNewCircle(evt.x, evt.y, radius, getClickType(evt))
MouseUp ==
    /\ HandlerMayStart(pc)
    /\ counter < MaxCircles
    /\ \E evt \in Gestures, v \in Velocities :
          /\ VelocityInRange(v[1], evt.r) /\ VelocityInRange(v[2], evt.r)
          /\ circles' = Append(circles, Circle(evt.x, evt.y, evt.r, getClickType(evt), counter, v))
    /\ counter' = PostIncrement(counter)
    /\ decays' = Append(decays, 0)
    /\ before' = circles
    /\ last' = "spawn"
    /\ zeeow' = Append(zeeow, 0)
    /\ cues' = NoCues(Len(circles'))
    /\ spawned' = Append(spawned, Birth(circles'[Len(circles')]))
    /\ flaggedAt' = Append(flaggedAt, 0)
    /\ UNCHANGED <<pc, ticks, tickLive, trash, atTick, steps, running>>

\* loop(): checkForCollisions() = checkForBallCollisions(); ...
BallCollisions ==
    /\ LoopStep("detect")
    /\ circles' = checkForBallCollisions(circles)
    /\ cues' = NoCues(Len(circles))
    /\ UNCHANGED <<decays, zeeow, trash, flaggedAt>>

\* ... handleDeletions(); ...
Deletions ==
    /\ LoopStep("reap")
    /\ circles' = handleDeletions(circles)
    /\ cues' = [i \in 1..Len(circles) |-> HandleDeletionPlays(circles[i])]
    /\ trash' = trash + SeqSum(cues')
    /\ UNCHANGED <<decays, zeeow, flaggedAt>>

\* ... checkForWallCollisions();
WallCollisions ==
    /\ LoopStep("walls")
    /\ circles' = checkForWallCollisions(circles)
    /\ cues' = NoCues(Len(circles))
    /\ UNCHANGED <<decays, zeeow, trash, flaggedAt>>

\* updatePositions(), the end of loop()
Positions ==
    /\ LoopStep("update")
    /\ circles' = updatePositions(circles)
    /\ decays' = [i \in 1..Len(decays) |->
                    IF IsCircle(circles[i]) /\ IsCircle(circles'[i]) /\ circles'[i].r < circles[i].r
                    THEN decays[i] + 1 ELSE decays[i]]
    /\ cues' = [i \in 1..Len(circles) |->
                    IF IsCircle(circles[i]) THEN updatePlays(circles[i]) ELSE 0]
    /\ zeeow' = [i \in 1..Len(zeeow) |-> zeeow[i] + cues'[i]]
    /\ flaggedAt' = [i \in 1..Len(flaggedAt) |->
                    IF flaggedAt[i] = 0 /\ IsCircle(circles[i])
                       /\ circles[i].collided /\ circles[i].strength = 0
                    THEN ticks ELSE flaggedAt[i]]
    /\ UNCHANGED trash

Next == MouseUp \/ BallCollisions \/ Deletions \/ WallCollisions \/ Positions

Spec == Init /\ [][Next]_vars

\* setInterval(this.loop, TIMER_INTERVAL_MS): the timer keeps calling loop(),
\* and each call runs to its end
Tick == BallCollisions \/ Deletions \/ WallCollisions \/ Positions

FairSpec == Spec /\ WF_vars(Tick)

\* ------------------------------------------------------------ helpers of the properties
Slots == 1..Len(circles)

Live(i) == i \in Slots /\ IsCircle(circles[i])

\* slot i held a circle before the last step
Was(i) == i \in 1..Len(before) /\ IsCircle(before[i])

\* the geometric condition of a ball-ball collision, stated on its own
Dist2(a, b) == ((a.cx - b.cx) * (a.cx - b.cx)) + ((a.cy - b.cy) * (a.cy - b.cy))

Touching(a, b) == Dist2(a, b) < (a.r + b.r) * (a.r + b.r)

Tied(a, b) == Dist2(a, b) = (a.r + b.r) * (a.r + b.r)

TypeOK ==
    /\ counter = Len(circles)
    /\ pc \in {"idle", "detected", "reaped", "walled"}
    /\ \A i \in Slots : IsCircle(circles[i]) => circles[i].id = i - 1

\* the live circles other than i that i touched before the last step
TouchedBefore(i) ==
    { j \in 1..Len(before) : j # i /\ IsCircle(before[j]) /\ Touching(before[i], before[j]) }

LiveSlots == { i \in Slots : IsCircle(circles[i]) }

WasSlots == { i \in 1..Len(before) : IsCircle(before[i]) }

\* circle i was the only live circle before the last step and, when that step
\* is a step of loop(), already when that loop() began
Alone(i) ==
    /\ WasSlots = {i}
    /\ (last \in {"detect", "reap", "walls", "update"}) => tickLive = {i}

\* ------------------------------------------------------------ C1
\* C1: a circle's strength never increases; the update step takes exactly 1
\* from it when the circle is flagged collided and its strength is > 0, however
\* many circles it touches, and no other step (spawn, detection, deletions,
\* wall check) and no other update changes it.
C1_StrengthMonotone ==
    \A i \in Slots :
        (Was(i) /\ Live(i)) =>
            circles[i].strength =
                IF last = "update" /\ before[i].collided /\ before[i].strength > 0
                THEN before[i].strength - 1
                ELSE before[i].strength

\* an update has taken one point from a circle that touched two others
C1_Witness ==
    /\ last = "update"
    /\ \E i \in Slots :
          /\ Was(i) /\ Live(i)
          /\ before[i].collided /\ before[i].strength > 0
          /\ Cardinality(TouchedBefore(i)) >= 2
          /\ circles[i].strength = before[i].strength - 1

C3_Original ==
    \A i \in 1..Len(before) :
        (last = "reap" /\ Was(i) /\ before[i].r = 0 /\ TouchedBefore(i) = {})
            => Live(i)

\* C3 amended: a circle whose radius has reached 0 is deleted by the deletions
\* step of the next tick, whether or not it touches another circle in that tick.
C3_RadiusZeroReaped ==
    \A i \in 1..Len(before) :
        (last = "reap" /\ Was(i) /\ before[i].r = 0) => ~Live(i)

\* a circle of radius 0 that touched nothing has been deleted
C3_Witness ==
    /\ last = "reap"
    /\ \E i \in 1..Len(before) :
          Was(i) /\ before[i].r = 0 /\ TouchedBefore(i) = {} /\ ~Live(i)

\* ------------------------------------------------------------ C4
\* C4 as stated: between two ticks every live circle has radius > 0 and
\* strength >= 0.
C4_Original ==
    (pc = "idle") =>
        \A i \in LiveSlots : circles[i].r > 0 /\ circles[i].strength >= 0

\* C4 amended: between two ticks every live circle has radius >= 0 and
\* strength >= 0.
C4_LiveBody ==
    (pc = "idle") =>
        \A i \in LiveSlots : circles[i].r >= 0 /\ circles[i].strength >= 0

\* between two ticks a live circle has radius 0
C4_Witness ==
    /\ pc = "idle"
    /\ last = "update"
    /\ \E i \in LiveSlots : circles[i].r = 0 /\ before[i].r > 0

\* ------------------------------------------------------------ C5
\* C5: after the detection pass every two distinct live circles whose centres
\* are closer than the sum of their radii are both flagged collided.
C5_CollisionSymmetry ==
    (last = "detect") =>
        \A i, j \in LiveSlots :
            (i # j /\ Touching(circles[i], circles[j]))
                => (circles[i].collided /\ circles[j].collided)

\* the pass has flagged a circle that touches two others, and those two
C5_Witness ==
    /\ last = "detect"
    /\ \E i \in LiveSlots :
          /\ circles[i].collided
          /\ Cardinality(TouchedBefore(i)) >= 2
          /\ \A j \in TouchedBefore(i) : circles[j].collided

\* ------------------------------------------------------------ C6
\* C6: the detection pass sets a flag that was false only for a circle that
\* some other live circle is strictly closer to than the sum of the radii; two
\* circles exactly that far apart that touch nothing else stay unflagged.
C6_TieIsNoCollision ==
    (last = "detect") =>
        \A i \in LiveSlots :
            (circles[i].collided /\ ~before[i].collided) => TouchedBefore(i) # {}

\* the pass has left two circles unflagged that are exactly r_i + r_j apart
C6_Witness ==
    /\ last = "detect"
    /\ \E i, j \in LiveSlots :
          /\ i # j
          /\ Tied(circles[i], circles[j])
          /\ ~before[i].collided /\ ~before[j].collided
          /\ ~circles[i].collided /\ ~circles[j].collided

\* ------------------------------------------------------------ C7
\* C7 as stated: while exactly one circle is live (it was alone when the tick
\* began and nothing was spawned since) no step sets its flag and its strength
\* and radius stay the same.
C7_Original ==
    \A i \in LiveSlots :
        Alone(i) =>
            /\ circles[i].collided => before[i].collided
            /\ circles[i].strength = before[i].strength
            /\ circles[i].r = before[i].r

\* C7 amended: while exactly one circle is live no step sets its flag, and if
\* its flag is false its strength and radius stay the same (a lone circle of
\* strength 0 whose flag was set earlier keeps shrinking).
C7_NoSelfCollision ==
    \A i \in LiveSlots :
        Alone(i) =>
            /\ circles[i].collided => before[i].collided
            /\ (~before[i].collided) =>
                  /\ circles[i].strength = before[i].strength
                  /\ circles[i].r = before[i].r

\* a detection pass over a single live circle has left it unflagged
C7_Witness ==
    /\ last = "detect"
    /\ \E i \in LiveSlots : Alone(i) /\ ~circles[i].collided

\* ------------------------------------------------------------ C8
\* C8: an update of a flagged circle with strength 0 and radius in (0, 1 pixel]
\* leaves it live, flagged and with radius 0; the deletions step deletes every
\* flagged circle of radius 0, so none is wall-checked or updated.
C8_FinalDecayThenReap ==
    \A i \in 1..Len(before) :
        Was(i) =>
            /\ (last = "update" /\ before[i].collided /\ before[i].strength = 0
                    /\ before[i].r > 0 /\ before[i].r <= Scale)
                  => (Live(i) /\ circles[i].r = 0 /\ circles[i].collided)
            /\ (last = "reap" /\ before[i].collided /\ before[i].r = 0) => ~Live(i)
            /\ (last \in {"walls", "update"}) => ~(before[i].collided /\ before[i].r = 0)

\* a circle has been deleted after exactly one shrinking update
C8_Witness ==
    /\ last = "reap"
    /\ \E i \in 1..Len(before) :
          Was(i) /\ ~Live(i) /\ decays[i] = 1 /\ before[i].collided

\* ------------------------------------------------------------ C9
\* C9: after the wall check a circle that reached past the right wall has
\* velocity.x <= 0 and one that reached past the bottom wall has velocity.y <= 0.
C9_WallContainment ==
    (last = "walls") =>
        \A i \in LiveSlots :
            /\ (before[i].cx + before[i].r > W) => circles[i].vx <= 0
            /\ (before[i].cy + before[i].r > H) => circles[i].vy <= 0

\* a circle moving right and down past the right and bottom walls was turned
C9_Witness ==
    /\ last = "walls"
    /\ \E i \in LiveSlots :
          /\ before[i].cx + before[i].r > W /\ before[i].vx > 0 /\ circles[i].vx < 0
          /\ before[i].cy + before[i].r > H /\ before[i].vy > 0 /\ circles[i].vy < 0

\* ------------------------------------------------------------ C10
\* C10 as stated: after the wall check a circle that reached past the left wall
\* has velocity.x >= 0 and one that reached past the top wall has
\* velocity.y >= 0, whatever the other conditions are.
C10_Original ==
    (last = "walls") =>
        \A i \in LiveSlots :
            /\ (before[i].cx - before[i].r < 0) => circles[i].vx >= 0
            /\ (before[i].cy - before[i].r < 0) => circles[i].vy >= 0

\* C10 amended: the left test is made only when the right test fails, and the
\* top test only when the bottom test fails; the two axes are independent.
C10_WallChecks ==
    (last = "walls") =>
        \A i \in LiveSlots :
            /\ (before[i].cx - before[i].r < 0 /\ ~(before[i].cx + before[i].r > W))
                  => circles[i].vx >= 0
            /\ (before[i].cy - before[i].r < 0 /\ ~(before[i].cy + before[i].r > H))
                  => circles[i].vy >= 0

\* a circle moving left and up past the left and top walls was turned on both axes
C10_Witness ==
    /\ last = "walls"
    /\ \E i \in LiveSlots :
          /\ before[i].cx - before[i].r < 0 /\ before[i].vx < 0 /\ circles[i].vx > 0
          /\ before[i].cy - before[i].r < 0 /\ before[i].vy < 0 /\ circles[i].vy > 0

\* ------------------------------------------------------------ C11
\* C11: every circle created by the mouse-up handler has a strength between 1
\* and 15; a click with no key held gives strength 1.
C11_SpawnStrength ==
    (last = "spawn") =>
        /\ circles[Len(circles)].strength >= 1
        /\ circles[Len(circles)].strength <= 15

\* ------------------------------------------------------------ C12
\* C12: the update plays 'zee-ow' once for a circle exactly when it takes a
\* point of its strength, the deletions step plays 'trash' once for exactly the
\* circles it deletes, and no other step plays anything; so far each circle has
\* had as many 'zee-ow' as it lost strength points, at most its strength at
\* creation, and 'trash' was played once per deleted circle.
C12_Events ==
    /\ \A i \in 1..Len(before) :
          cues[i] =
              IF last = "update" /\ Was(i) /\ Live(i)
              THEN before[i].strength - circles[i].strength
              ELSE IF last = "reap" /\ Was(i) /\ ~Live(i) THEN 1
              ELSE 0
    /\ \A i \in Slots :
          /\ zeeow[i] <= spawned[i].strength
          /\ Live(i) => zeeow[i] = spawned[i].strength - circles[i].strength
    /\ trash = Cardinality({ i \in Slots : ~IsCircle(circles[i]) })

\* a circle that was damaged has been deleted with the 'trash' cue
C12_Witness ==
    /\ last = "reap"
    /\ \E i \in 1..Len(before) :
          Was(i) /\ ~Live(i) /\ cues[i] = 1 /\ zeeow[i] >= 1 /\ trash >= 1

\* ------------------------------------------------------------ C13
\* C13: the ids given at creation are strictly increasing in creation order, so
\* no two circles, live or deleted, share an id, every id is below the counter,
\* a live circle keeps the id it was given, and a deleted slot stays deleted.
C13_IdUnique ==
    /\ \A i, j \in 1..Len(spawned) : (i < j) => spawned[i].id < spawned[j].id
    /\ \A i \in 1..Len(spawned) : spawned[i].id < counter
    /\ Len(spawned) = Len(circles)
    /\ \A i \in LiveSlots : circles[i].id = spawned[i].id
    /\ \A i \in 1..Len(before) : (~Was(i)) => ~Live(i)

\* a circle has been created after another one was deleted
C13_Witness ==
    /\ last = "spawn"
    /\ \E i \in 1..Len(before) : ~Was(i)
    /\ Live(Len(circles))

\* ------------------------------------------------------------ C14
\* C14: the timer callback and the mouse-up handler never interleave and two
\* timer callbacks never overlap: at most one handler is in progress, no circle
\* is created while loop() is in progress, and every circle that a step of
\* loop() works on was in the array when that loop() began.
C14_TickAtomic ==
    /\ running \in {0, 1}
    /\ (running = 0) <=> (pc = "idle")
    /\ (last = "spawn") => (running = 0 /\ Len(steps) \in {0, 4})
    /\ (last \in {"detect", "reap", "walls", "update"}) =>
          /\ Len(circles) = Len(atTick)
          /\ WasSlots \subseteq tickLive

\* a loop() that ran between two creations has finished with all its circles
C14_Witness ==
    /\ last = "update"
    /\ running = 0
    /\ Len(atTick) >= 2
    /\ Len(steps) = 4
    /\ counter < MaxCircles

\* ------------------------------------------------------------ C15
\* C15: the steps of a tick run in the order detection, deletions, wall check,
\* update; a circle deleted in a tick is not touched by the later steps of that
\* tick and gets no cue from them; centre, radius and strength change only in
\* the update, which applies the effect of a flag set by the detection of the
\* same tick.
C15_PipelineOrder ==
    /\ steps = SubSeq(<<"detect", "reap", "walls", "update">>, 1, Len(steps))
    /\ (ticks > 0) => Len(steps) >= 1
    /\ (pc = "idle" /\ ticks > 0) => Len(steps) = 4
    /\ (last \in {"detect", "reap", "walls", "update"}) => last = steps[Len(steps)]
    /\ (last \in {"walls", "update"}) =>
          \A i \in tickLive : (~Was(i)) => (~Live(i) /\ cues[i] = 0)
    /\ (last \in {"detect", "reap", "walls"}) =>
          \A i \in LiveSlots :
              /\ circles[i].strength = before[i].strength
              /\ circles[i].r = before[i].r
              /\ circles[i].cx = before[i].cx
              /\ circles[i].cy = before[i].cy
    /\ (last = "update") =>
          \A i \in LiveSlots :
              (before[i].collided /\ ~atTick[i].collided) =>
                  IF before[i].strength > 0
                  THEN circles[i].strength = before[i].strength - 1
                  ELSE circles[i].r = Max(before[i].r - Scale, 0)

\* a tick has deleted one circle and then taken a point from another that its
\* detection had flagged
C15_Witness ==
    /\ last = "update"
    /\ \E i \in tickLive : ~Live(i)
    /\ \E j \in LiveSlots :
          /\ before[j].collided /\ ~atTick[j].collided
          /\ circles[j].strength = before[j].strength - 1

\* ------------------------------------------------------------ C16
\* the circle reaches past none of the four walls
InBounds(c) ==
    /\ c.cx + c.r <= W /\ c.cx - c.r >= 0
    /\ c.cy + c.r <= H /\ c.cy - c.r >= 0

Magnitude(n) == IF n >= 0 THEN n ELSE 0 - n

\* C16: the wall check leaves centre, radius, strength and flag of every circle
\* alone, and its velocity too when the circle is within bounds on all four
\* sides; no other step writes the velocity, and the wall check changes at most
\* its sign, so each component keeps the absolute value it had at creation.
C16_WallFrame ==
    /\ (last = "walls") =>
          \A i \in LiveSlots :
              /\ circles[i].cx = before[i].cx /\ circles[i].cy = before[i].cy
              /\ circles[i].r = before[i].r
              /\ circles[i].strength = before[i].strength
              /\ circles[i].collided = before[i].collided
              /\ InBounds(before[i]) =>
                    (circles[i].vx = before[i].vx /\ circles[i].vy = before[i].vy)
    /\ (last # "walls") =>
          \A i \in LiveSlots :
              Was(i) => (circles[i].vx = before[i].vx /\ circles[i].vy = before[i].vy)
    /\ \A i \in LiveSlots :
          /\ Magnitude(circles[i].vx) = spawned[i].speedx
          /\ Magnitude(circles[i].vy) = spawned[i].speedy

\* a wall check has left alone a circle that just touches the right wall while
\* moving right, and has turned another circle
C16_Witness ==
    /\ last = "walls"
    /\ \E i \in LiveSlots :
          /\ InBounds(before[i]) /\ before[i].cx + before[i].r = W
          /\ before[i].vx > 0 /\ circles[i].vx = before[i].vx
    /\ \E j \in LiveSlots : circles[j].vx = 0 - before[j].vx /\ before[j].vx # 0

\* ------------------------------------------------------------ C17
\* the live circles other than i that i touched when the last loop() began
TouchedAtTick(i) ==
    { j \in 1..Len(atTick) : j # i /\ IsCircle(atTick[j]) /\ Touching(atTick[i], atTick[j]) }

\* C17: a flagged circle of strength 0 keeps its flag through every step until
\* it is deleted; every update of such a circle takes 1 pixel from its radius,
\* floored at 0, whether or not it touches another circle, so a tick that it
\* begins flagged with a positive radius ends with the radius 1 pixel smaller;
\* no radius is ever negative.
C17_StickyFlag ==
    /\ \A i \in LiveSlots :
          /\ circles[i].r >= 0
          /\ (Was(i) /\ before[i].collided /\ before[i].strength = 0) =>
                /\ circles[i].collided
                /\ circles[i].strength = 0
                /\ (last = "update") =>
                      circles[i].r =
                          (IF before[i].r >= Scale THEN before[i].r - Scale ELSE 0)
    /\ (last = "update") =>
          \A i \in tickLive :
              (atTick[i].collided /\ atTick[i].strength = 0 /\ atTick[i].r > 0) =>
                  /\ Live(i)
                  /\ circles[i].r < atTick[i].r
                  /\ circles[i].r =
                        (IF atTick[i].r >= Scale THEN atTick[i].r - Scale ELSE 0)

\* a tick has shrunk a flagged circle of strength 0 that touched nothing
C17_Witness ==
    /\ last = "update"
    /\ \E i \in tickLive :
          /\ atTick[i].collided /\ atTick[i].strength = 0 /\ atTick[i].r > 0
          /\ TouchedAtTick(i) = {}
          /\ Live(i) /\ circles[i].collided /\ circles[i].r < atTick[i].r

\* ------------------------------------------------------------ C18
\* the number of whole pixels that cover n units
CeilPixels(n) == (n + Scale - 1) \div Scale

Dying(i) == Live(i) /\ circles[i].collided /\ circles[i].strength = 0

Removed(i) == i \in Slots /\ ~IsCircle(circles[i])

\* the timer calls explored suffice to shrink circle i to 0 and delete it
TicksSuffice(i) == ticks + CeilPixels(circles[i].r) + 1 <= MaxTicks

\* a circle first updated as flagged with strength 0 in tick t, with radius r,
\* is live until the deletions step of tick t + ceil(r) and deleted by it
RemovalOnTime ==
    \A i \in Slots :
        (flaggedAt[i] > 0) =>
            LET due == flaggedAt[i] + CeilPixels(spawned[i].r)
            IN  /\ Live(i) => (ticks < due \/ (ticks = due /\ last = "detect"))
                /\ (last = "reap" /\ Was(i) /\ ~Live(i)) =>
                      (ticks = due /\ decays[i] = CeilPixels(spawned[i].r))

\* C18: while the timer keeps firing, every circle that is flagged with
\* strength 0 is eventually deleted, whether or not it touches another circle
\* again (stated for the circles that the timer calls explored suffice for);
\* with radius r when first updated so, it is deleted by the deletions step of
\* the tick after its ceil(r) shrinking ticks.
C18_EventualRemoval ==
    /\ \A i \in 1..MaxCircles : [](( Dying(i) /\ TicksSuffice(i) ) => <>Removed(i))
    /\ []RemovalOnTime

\* a circle that was flagged with strength 0 and has shrunk to radius 0 is
\* deleted by a timer call at whose start it touched no other circle
C18_Witness ==
    /\ last = "reap"
    /\ \E i \in tickLive :
          /\ Was(i) /\ ~Live(i)
          /\ flaggedAt[i] > 0 /\ decays[i] >= 1
          /\ ticks = flaggedAt[i] + CeilPixels(spawned[i].r)
          /\ TouchedAtTick(i) = {}

DyingHits(i, j) ==
    /\ i \in tickLive /\ j \in tickLive /\ i # j
    /\ atTick[i].strength = 0 /\ atTick[j].strength > 0
    /\ Touching(atTick[i], atTick[j])

=============================================================================
